---- MODULE Spec2Model ----
(***************************************************************************)
(* HubSpot pipeline reporter: the one-shot run (hubspot_reporter.main),    *)
(* the weekly scheduler loop around it (scheduler.py) and the spreadsheet  *)
(* export shared with the demo variant (demo_reporter.py).                 *)
(***************************************************************************)
EXTENDS Integers, Sequences, FiniteSets, TLC

\* ------------------------------------------------------------------ bounds
\* deal-page requests one get_pipeline_deals call may issue in the model
MaxRequests == 3
\* polling iterations of the scheduler loop explored
MaxTicks == 2
\* length of the deal lists handed directly to export_to_excel
MaxDeals == 3

\* -------------------------------------------------------- program constants
\* min(max_length + 2, 50)
WidthCap == 50
WidthPad == 2
\* enumerate(headers, start=1), enumerate(deals, start=2)
HeaderRow == 1
FirstDataRow == 2

\* ------------------------------------------------------------ Python values
PyNone == [t |-> "NoneType", v |-> ""]
Str(s) == [t |-> "str", v |-> s]

\* truth value of a str-or-None object (`if not self.api_key`, `if after`)
Truthy(x) == x.t = "str" /\ x.v # ""

\* `a or b`
PyOr(a, b) == IF Truthy(a) THEN a ELSE b

\* str(cell.value)
PyStr(x) == IF x.t = "NoneType" THEN "None" ELSE x.v

\* dict.get(key, default)
DictGet(d, k, default) == IF k \in DOMAIN d THEN d[k] ELSE default

Min(a, b) == IF a <= b THEN a ELSE b

\* ------------------------------------------------------------- exceptions
NoExc == [type |-> "none", code |-> 0]
SystemExit(c) == [type |-> "SystemExit", code |-> c]
RequestException == [type |-> "RequestException", code |-> 0]
KeyError == [type |-> "KeyError", code |-> 0]
ValueError == [type |-> "ValueError", code |-> 0]
OSError == [type |-> "OSError", code |-> 0]
KeyboardInterrupt == [type |-> "KeyboardInterrupt", code |-> 0]

\* `except Exception` matches every exception class except the BaseException-only
\* ones (SystemExit, KeyboardInterrupt)
IsException(e) == e.type \notin {"none", "SystemExit", "KeyboardInterrupt"}

\* exit status of the interpreter when exception e leaves the program
ExitStatus(e) ==
    IF e.type = "SystemExit" THEN e.code
    ELSE IF e.type = "KeyboardInterrupt" THEN 130
    ELSE 1

\* ------------------------------------------------------------------- data
\* deals the CRM may return; `pipeline` is the filter field
ApiDealA == [properties |-> ("dealname" :> Str("A") @@ "amount" :> Str("10")
                             @@ "pipeline" :> Str("p1"))]
ApiDealB == [properties |-> ("dealname" :> Str("B") @@ "dealstage" :> Str("won")
                             @@ "pipeline" :> Str("p1"))]
ApiDealC == [properties |-> ("dealname" :> Str("C") @@ "pipeline" :> Str("p2"))]
ApiDealD == [properties |-> ("dealname" :> Str("D") @@ "amount" :> PyNone)]

\* the `results` arrays a deals page may carry
PageBodies == { <<>>, <<ApiDealA, ApiDealC, ApiDealB>>, <<ApiDealD, ApiDealB>> }

\* the `paging` objects a deals page may carry: no `next`, a `next` without
\* `after`, a `next` with a cursor
Pagings == { [next |-> FALSE, after |-> PyNone],
             [next |-> TRUE, after |-> PyNone],
             [next |-> TRUE, after |-> Str("c1")],
             [next |-> TRUE, after |-> Str("c2")] }

\* outcomes of GET /crm/v3/objects/deals: a RequestException (network error or
\* raise_for_status), a body the code cannot index, or a page
DealResponses ==
    { [status |-> "error", results |-> <<>>, paging |-> [next |-> FALSE, after |-> PyNone]],
      [status |-> "malformed", results |-> <<>>, paging |-> [next |-> FALSE, after |-> PyNone]] }
    \cup { [status |-> "ok", results |-> b, paging |-> p] : b \in PageBodies, p \in Pagings }

PipelineSales == [id |-> Str("p1"), label |-> "Sales Pipeline"]
PipelineOther == [id |-> Str("p2"), label |-> "Other"]

\* outcomes of GET /crm/v3/pipelines/deals
PipelineResponses ==
    { [status |-> "error", results |-> <<>>],
      [status |-> "malformed", results |-> <<>>] }
    \cup { [status |-> "ok", results |-> r] :
             r \in { <<>>, <<PipelineSales>>, <<PipelineOther, PipelineSales>> } }

\* values of HUBSPOT_API_KEY in the environment: unset, empty, set
EnvKeys == { PyNone, Str(""), Str("tok") }

\* ------------------------------------------------------------------ state
VARIABLES
    mode,          \* "oneshot" (hubspot_reporter as a program), "scheduler", "library"
    env_key,       \* os.getenv('HUBSPOT_API_KEY')
    pc,            \* position of the single thread
    exit_code,     \* exit status once pc = "exited", -1 while running
    ticks,         \* polling iterations of the scheduler loop so far
    api_key,       \* self.api_key
    pipelines,     \* main's `pipelines`
    pipeline_id,   \* main's `pipeline_id`
    deals,         \* get_pipeline_deals' accumulator `deals`
    after,         \* get_pipeline_deals' `after`
    params_after,  \* params['after'] (PyNone: key absent)
    main_deals,    \* main's `deals`: what get_pipeline_deals returned
    requests,      \* HTTP requests issued in this run, in order
    responses,     \* deal pages received in this run, in order
    failures,      \* failures met in this run
    log,           \* messages printed in this run
    export_calls,  \* calls of export_to_excel in this run
    files,         \* report files written in this run
    sheet,         \* worksheet cells of the last export
    widths         \* column widths of the last export

procVars == <<mode, env_key, pc, exit_code, ticks>>
fetchVars == <<api_key, pipelines, pipeline_id, deals, after, params_after, main_deals,
               requests, responses>>
outVars == <<failures, log, export_calls, files, sheet, widths>>
vars == <<procVars, fetchVars, outVars>>

NoCode == 0 - 1
EmptySheet == [x \in {} |-> PyNone]
NoWidths == <<>>

\* the locals of a run before main() starts
FreshRun ==
    /\ api_key = PyNone
    /\ pipelines = <<>>
    /\ pipeline_id = PyNone
    /\ deals = <<>>
    /\ after = PyNone
    /\ params_after = PyNone
    /\ main_deals = <<>>
    /\ requests = <<>>
    /\ responses = <<>>
    /\ failures = {}
    /\ log = {}
    /\ export_calls = 0
    /\ files = 0
    /\ sheet = EmptySheet
    /\ widths = NoWidths

Init ==
    /\ mode \in {"oneshot", "scheduler"}
    /\ env_key \in EnvKeys
    /\ pc = IF mode = "oneshot" THEN "main" ELSE "polling"
    /\ exit_code = NoCode
    /\ ticks = 0
    /\ FreshRun

\* ------------------------------------------------- HubSpotReporter.__init__
\* self.api_key = api_key or os.getenv('HUBSPOT_API_KEY')
InitApiKey(arg, env) == PyOr(arg, env)

\* `if not self.api_key: raise ValueError(...)`: the exception __init__ raises
\* variant: the key is never checked
InitRaises_unchecked(key) == NoExc
InitRaises(key) == IF ~Truthy(key) THEN ValueError ELSE NoExc

\* ------------------------------------------------------ exception handlers
\* A handler's outcome: exc = NoExc when the function goes on (returning ret),
\* else the exception that leaves the function; log is what it prints.

\* get_pipelines: except RequestException -> print, sys.exit(1)
\* variant: the handler returns [] instead of exiting
get_pipelines_except_returns(e) ==
    IF e.type = "RequestException"
    THEN [exc |-> NoExc, ret |-> <<>>, log |-> {"Error fetching pipelines"}]
    ELSE [exc |-> e, ret |-> <<>>, log |-> {}]
get_pipelines_except(e) ==
    IF e.type = "RequestException"
    THEN [exc |-> SystemExit(1), ret |-> <<>>, log |-> {"Error fetching pipelines"}]
    ELSE [exc |-> e, ret |-> <<>>, log |-> {}]

\* get_pipeline_deals: except RequestException -> print, return []
\* variant: the handler returns the deals accumulated so far
get_pipeline_deals_except_partial(e, acc) ==
    IF e.type = "RequestException"
    THEN [exc |-> NoExc, ret |-> acc, log |-> {"Error fetching deals"}]
    ELSE [exc |-> e, ret |-> <<>>, log |-> {}]
\* variant: the handler exits like get_pipelines'
get_pipeline_deals_except_exit(e, acc) ==
    IF e.type = "RequestException"
    THEN [exc |-> SystemExit(1), ret |-> <<>>, log |-> {"Error fetching deals"}]
    ELSE [exc |-> e, ret |-> <<>>, log |-> {}]
get_pipeline_deals_except(e, acc) ==
    IF e.type = "RequestException"
    THEN [exc |-> NoExc, ret |-> <<>>, log |-> {"Error fetching deals"}]
    ELSE [exc |-> e, ret |-> <<>>, log |-> {}]

\* main: except Exception -> print, sys.exit(1)
main_except(e) ==
    IF IsException(e)
    THEN [exc |-> SystemExit(1), log |-> {"Error"}]
    ELSE [exc |-> e, log |-> {}]

\* scheduled_job: except Exception -> print, go on
scheduled_job_except(e) ==
    IF IsException(e)
    THEN [exc |-> NoExc, log |-> {"Error during scheduled report generation"}]
    ELSE [exc |-> e, log |-> {}]

\* ---------------------------------------------------- get_pipeline_deals
\* `if after: params['after'] = after`: params['after'] of the request about to go
SetAfterParam(prev, aft) == IF Truthy(aft) THEN aft ELSE prev

\* the deals of one page whose properties.get('pipeline') equals pipeline_id
MatchesPipeline(deal, pid) == DictGet(deal.properties, "pipeline", PyNone) = pid
\* variant: no client-side filter
FilterDeals_all(results, pid) == results
FilterDeals(results, pid) == SelectSeq(results, LAMBDA d : MatchesPipeline(d, pid))

\* `if 'next' in paging` / `paging['next'].get('after')`
HasNext(paging) == paging.next
PagingAfter(paging) == paging.after

\* --------------------------------------------------------------- main
\* `if pipelines:` / `if deals:`
NonEmpty(xs) == Len(xs) > 0
\* variant: export even an empty list
ShouldExport_always(xs) == TRUE
ShouldExport(xs) == NonEmpty(xs)

\* pipelines[0]
FirstPipeline(ps) == ps[1]

\* ------------------------------------------------------------ propagation
\* The exception (or NoExc) that leaves the outermost frame when e is raised in
\* main's try block: main's handler first, then, in the scheduler, scheduled_job's.
Unwind(e) ==
    LET m == main_except(e)
        s == IF mode = "scheduler"
             THEN scheduled_job_except(m.exc)
             ELSE [exc |-> m.exc, log |-> {}]
    IN [exc |-> s.exc, log |-> m.log \cup s.log]

\* e is raised in main's try block, after `printed` was printed
Raise(e, printed) ==
    LET u == Unwind(e)
    IN /\ log' = log \cup printed \cup u.log
       /\ IF u.exc # NoExc
          THEN pc' = "exited" /\ exit_code' = ExitStatus(u.exc)
          ELSE pc' = "polling" /\ exit_code' = exit_code

\* ---------------------------------------------------------------- actions
\* scheduler loop: schedule.run_pending() finds nothing due, time.sleep(60)
PollIdle ==
    /\ mode = "scheduler"
    /\ pc = "polling"
    /\ ticks < MaxTicks
    /\ ticks' = ticks + 1
    /\ UNCHANGED <<mode, env_key, pc, exit_code, fetchVars, outVars>>

\* scheduler loop: the weekly job is due, scheduled_job() calls main()
PollDue ==
    /\ mode = "scheduler"
    /\ pc = "polling"
    /\ ticks < MaxTicks
    /\ ticks' = ticks + 1
    /\ pc' = "main"
    /\ api_key' = PyNone
    /\ pipelines' = <<>>
    /\ pipeline_id' = PyNone
    /\ deals' = <<>>
    /\ after' = PyNone
    /\ params_after' = PyNone
    /\ main_deals' = <<>>
    /\ requests' = <<>>
    /\ responses' = <<>>
    /\ failures' = {}
    /\ log' = {}
    /\ export_calls' = 0
    /\ files' = 0
    /\ sheet' = EmptySheet
    /\ widths' = NoWidths
    /\ UNCHANGED <<mode, env_key, exit_code>>

\* main: reporter = HubSpotReporter()
Construct ==
    /\ pc = "main"
    /\ LET key == InitApiKey(PyNone, env_key)
           e == InitRaises(key)
       IN /\ api_key' = key
          /\ IF e = NoExc
             THEN /\ pc' = "get_pipelines"
                  /\ UNCHANGED <<exit_code, log, failures>>
             ELSE /\ failures' = failures \cup {"config"}
                  /\ Raise(e, {})
    /\ UNCHANGED <<mode, env_key, ticks, pipelines, pipeline_id, deals, after,
                   params_after, main_deals, requests, responses, export_calls, files,
                   sheet, widths>>

\* main: pipelines = reporter.get_pipelines(), then the choice of pipelines[0]
GetPipelines ==
    /\ pc = "get_pipelines"
    /\ requests' = Append(requests, [url |-> "pipelines", auth |-> api_key, after |-> PyNone])
    /\ \E resp \in PipelineResponses :
         LET r == IF resp.status = "ok"
                  THEN [exc |-> NoExc, ret |-> resp.results, log |-> {}]
                  ELSE get_pipelines_except(IF resp.status = "error"
                                            THEN RequestException ELSE KeyError)
         IN /\ failures' = failures \cup
                   (IF resp.status = "error" THEN {"pipeline_request"}
                    ELSE IF resp.status = "malformed" THEN {"malformed"} ELSE {})
            /\ IF r.exc # NoExc
               THEN /\ Raise(r.exc, r.log)
                    /\ UNCHANGED <<pipelines, pipeline_id>>
               ELSE /\ pipelines' = r.ret
                    /\ exit_code' = exit_code
                    /\ IF NonEmpty(r.ret)
                       THEN /\ pipeline_id' = FirstPipeline(r.ret).id
                            /\ pc' = "fetch"
                            /\ log' = log \cup r.log
                       ELSE /\ pipeline_id' = pipeline_id
                            /\ pc' = "returned"
                            /\ log' = log \cup r.log \cup {"No pipelines found"}
    /\ UNCHANGED <<mode, env_key, ticks, api_key, deals, after, params_after, main_deals,
                   responses, export_calls, files, sheet, widths>>

DealRequests == SelectSeq(requests, LAMBDA q : q.url = "deals")

\* get_pipeline_deals: one iteration of `while True` (one GET and its handling)
FetchPage ==
    /\ pc = "fetch"
    /\ Len(DealRequests) < MaxRequests
    /\ LET p == SetAfterParam(params_after, after)
       IN /\ params_after' = p
          /\ requests' = Append(requests, [url |-> "deals", auth |-> api_key, after |-> p])
    /\ \E resp \in DealResponses :
         IF resp.status = "ok"
         THEN LET acc == deals \o FilterDeals(resp.results, pipeline_id)
              IN /\ responses' = Append(responses, resp)
                 /\ deals' = acc
                 /\ IF HasNext(resp.paging)
                    THEN /\ after' = PagingAfter(resp.paging)
                         /\ pc' = "fetch"
                         /\ main_deals' = main_deals
                    ELSE /\ after' = after
                         /\ pc' = "after_fetch"
                         /\ main_deals' = acc
                 /\ UNCHANGED <<exit_code, log, failures>>
         ELSE LET h == get_pipeline_deals_except(
                           IF resp.status = "error" THEN RequestException ELSE KeyError,
                           deals)
              IN /\ failures' = failures \cup
                        {IF resp.status = "error" THEN "deal_request" ELSE "malformed"}
                 /\ UNCHANGED <<responses, deals, after>>
                 /\ IF h.exc # NoExc
                    THEN Raise(h.exc, h.log) /\ main_deals' = main_deals
                    ELSE /\ main_deals' = h.ret
                         /\ pc' = "after_fetch"
                         /\ log' = log \cup h.log
                         /\ exit_code' = exit_code
    /\ UNCHANGED <<mode, env_key, ticks, api_key, pipelines, pipeline_id, export_calls,
                   files, sheet, widths>>

\* main: `if deals:` export, else report that nothing was found
AfterFetch ==
    /\ pc = "after_fetch"
    /\ IF ShouldExport(main_deals)
       THEN pc' = "export" /\ log' = log
       ELSE pc' = "returned" /\ log' = log \cup {"No deals found in this pipeline"}
    /\ UNCHANGED <<mode, env_key, exit_code, ticks, fetchVars, failures, export_calls,
                   files, sheet, widths>>

\* ------------------------------------------------------- export_to_excel
Headers == <<"Deal Name", "Amount", "Stage", "Close Date", "Created Date">>
Fields == <<"dealname", "amount", "dealstage", "closedate", "createdate">>
Columns == 1..Len(Headers)

\* ws.cell(row=r, column=c).value = v
SetCell(ws, r, c, v) ==
    [x \in DOMAIN ws \cup {<<r, c>>} |-> IF x = <<r, c>> THEN v ELSE ws[x]]

RECURSIVE SetMax(_)
SetMax(S) ==
    IF S = {} THEN 0
    ELSE LET x == CHOOSE y \in S : TRUE
             m == SetMax(S \ {x})
         IN IF x > m THEN x ELSE m

\* ws.max_row, ws.max_column
MaxRow(ws) == SetMax({x[1] : x \in DOMAIN ws})
MaxColumn(ws) == SetMax({x[2] : x \in DOMAIN ws})

\* one element of ws.columns: the cells of column c, top to bottom
ColumnCells(ws, c) ==
    [r \in 1..MaxRow(ws) |-> IF <<r, c>> \in DOMAIN ws THEN ws[<<r, c>>] ELSE PyNone]

\* for col, header in enumerate(headers, start=1): cell.value = header
RECURSIVE WriteHeaders(_, _)
WriteHeaders(ws, col) ==
    IF col > Len(Headers) THEN ws
    ELSE WriteHeaders(SetCell(ws, HeaderRow, col, Str(Headers[col])), col + 1)

\* the five assignments of one data row: props.get(field, 'N/A')
\* variant: the fields land one column off
RECURSIVE WriteDealRow_shifted(_, _, _, _)
WriteDealRow_shifted(ws, deal, row, col) ==
    IF col > Len(Fields) THEN ws
    ELSE WriteDealRow_shifted(
             SetCell(ws, row, col,
                     DictGet(deal.properties, Fields[(col % Len(Fields)) + 1], Str("N/A"))),
             deal, row, col + 1)
RECURSIVE WriteDealRow(_, _, _, _)
WriteDealRow(ws, deal, row, col) ==
    IF col > Len(Fields) THEN ws
    ELSE WriteDealRow(
             SetCell(ws, row, col, DictGet(deal.properties, Fields[col], Str("N/A"))),
             deal, row, col + 1)

\* for row, deal in enumerate(deals, start=2)
RECURSIVE WriteDeals(_, _, _)
WriteDeals(ws, ds, row) ==
    IF ds = <<>> THEN ws
    ELSE WriteDeals(WriteDealRow(ws, Head(ds), row, 1), Tail(ds), row + 1)

\* the max_length loop over one column's cells
RECURSIVE MaxLength(_, _, _)
MaxLength(cells, i, max_length) ==
    IF i > Len(cells) THEN max_length
    ELSE MaxLength(cells, i + 1,
                   IF Len(PyStr(cells[i])) > max_length
                   THEN Len(PyStr(cells[i])) ELSE max_length)

\* adjusted_width = min(max_length + 2, 50)
\* variant: no cap
AdjustedWidth_uncapped(max_length) == max_length + WidthPad
AdjustedWidth(max_length) == Min(max_length + WidthPad, WidthCap)

\* for column in ws.columns: ws.column_dimensions[letter].width = adjusted_width
ColumnWidths(ws) ==
    [c \in 1..MaxColumn(ws) |-> AdjustedWidth(MaxLength(ColumnCells(ws, c), 1, 0))]

\* HubSpotReporter.export_to_excel: the worksheet it saves
export_to_excel(ds) ==
    LET ws == WriteDeals(WriteHeaders(EmptySheet, 1), ds, FirstDataRow)
    IN [cells |-> ws, widths |-> ColumnWidths(ws)]

\* demo_reporter.export_to_excel: the same steps in the demo's copy of the code
RECURSIVE DemoWriteHeaders(_, _)
DemoWriteHeaders(ws, col) ==
    IF col > Len(Headers) THEN ws
    ELSE DemoWriteHeaders(SetCell(ws, HeaderRow, col, Str(Headers[col])), col + 1)

RECURSIVE DemoWriteDealRow(_, _, _, _)
DemoWriteDealRow(ws, deal, row, col) ==
    IF col > Len(Fields) THEN ws
    ELSE DemoWriteDealRow(
             SetCell(ws, row, col, DictGet(deal.properties, Fields[col], Str("N/A"))),
             deal, row, col + 1)

RECURSIVE DemoWriteDeals(_, _, _)
DemoWriteDeals(ws, ds, row) ==
    IF ds = <<>> THEN ws
    ELSE DemoWriteDeals(DemoWriteDealRow(ws, Head(ds), row, 1), Tail(ds), row + 1)

DemoAdjustedWidth(max_length) == Min(max_length + WidthPad, WidthCap)

DemoColumnWidths(ws) ==
    [c \in 1..MaxColumn(ws) |-> DemoAdjustedWidth(MaxLength(ColumnCells(ws, c), 1, 0))]

demo_export_to_excel(ds) ==
    LET ws == DemoWriteDeals(DemoWriteHeaders(EmptySheet, 1), ds, FirstDataRow)
    IN [cells |-> ws, widths |-> DemoColumnWidths(ws)]

\* main: reporter.export_to_excel(pipeline_name, deals); makedirs or wb.save may raise
Export ==
    /\ pc = "export"
    /\ export_calls' = export_calls + 1
    /\ \E outcome \in {"saved", "OSError"} :
         IF outcome = "saved"
         THEN LET wb == export_to_excel(main_deals)
              IN /\ sheet' = wb.cells
                 /\ widths' = wb.widths
                 /\ files' = files + 1
                 /\ pc' = "returned"
                 /\ log' = log \cup {"Report saved"}
                 /\ UNCHANGED <<exit_code, failures>>
         ELSE /\ failures' = failures \cup {"write"}
              /\ Raise(OSError, {})
              /\ UNCHANGED <<sheet, widths, files>>
    /\ UNCHANGED <<mode, env_key, ticks, fetchVars>>

\* scheduled_job: main() returned, "completed successfully", back to the loop's sleep
JobEnd ==
    /\ mode = "scheduler"
    /\ pc = "returned"
    /\ pc' = "polling"
    /\ log' = log \cup {"Report generation completed successfully"}
    /\ UNCHANGED <<mode, env_key, exit_code, ticks, fetchVars, failures, export_calls,
                   files, sheet, widths>>

\* hubspot_reporter as a program: main() returned, the interpreter exits with 0
ProcessEnd ==
    /\ mode = "oneshot"
    /\ pc = "returned"
    /\ pc' = "exited"
    /\ exit_code' = 0
    /\ UNCHANGED <<mode, env_key, ticks, fetchVars, outVars>>

\* Ctrl+C on the scheduler: KeyboardInterrupt passes every `except Exception`
Interrupt ==
    /\ mode = "scheduler"
    /\ pc # "exited"
    /\ pc' = "exited"
    /\ exit_code' = ExitStatus(KeyboardInterrupt)
    /\ log' = log \cup {"KeyboardInterrupt"}
    /\ UNCHANGED <<mode, env_key, ticks, fetchVars, failures, export_calls, files,
                   sheet, widths>>

Next ==
    \/ PollIdle
    \/ PollDue
    \/ Construct
    \/ GetPipelines
    \/ FetchPage
    \/ AfterFetch
    \/ Export
    \/ JobEnd
    \/ ProcessEnd
    \/ Interrupt

Spec == Init /\ [][Next]_vars

\* ------------------------------------------- export_to_excel called directly
Long60 == "Global Solutions International Holdings - Q4 Enterprise Deal"
Long48 == "Negotiation pending legal and procurement review"
Long49 == "2024-03-01T00:00:00.000Z (close date, tentative) "
Long47 == "2024-01-01T00:00:00.000Z (imported from legacy)"

ExportDealFull ==
    [properties |-> ("dealname" :> Str("Acme - Q1 Deal") @@ "amount" :> Str("$10,000")
                     @@ "dealstage" :> Str("Closed Won") @@ "closedate" :> Str("2024-03-01")
                     @@ "createdate" :> Str("2024-01-01") @@ "pipeline" :> Str("p1"))]
ExportDealSparse == [properties |-> ("dealname" :> Str("TechStart Inc - Q2 Deal"))]
ExportDealLong ==
    [properties |-> ("dealname" :> Str(Long60) @@ "amount" :> PyNone
                     @@ "dealstage" :> Str(Long48) @@ "closedate" :> Str(Long49)
                     @@ "createdate" :> Str(Long47))]
ExportDealEmpty == [properties |-> ("pipeline" :> Str("p1"))]

ExportDeals == {ExportDealFull, ExportDealSparse, ExportDealLong, ExportDealEmpty}

BoundedSeqs(S, n) == UNION {[1..k -> S] : k \in 0..n}

InitExport ==
    /\ mode = "library"
    /\ env_key = Str("tok")
    /\ pc = "call"
    /\ exit_code = NoCode
    /\ ticks = 0
    /\ api_key = Str("tok")
    /\ pipelines = <<>>
    /\ pipeline_id = PyNone
    /\ deals = <<>>
    /\ after = PyNone
    /\ params_after = PyNone
    /\ main_deals \in BoundedSeqs(ExportDeals, MaxDeals)
    /\ requests = <<>>
    /\ responses = <<>>
    /\ failures = {}
    /\ log = {}
    /\ export_calls = 0
    /\ files = 0
    /\ sheet = EmptySheet
    /\ widths = NoWidths

\* reporter.export_to_excel(name, deals) on an arbitrary deal list
CallExport ==
    /\ mode = "library"
    /\ pc = "call"
    /\ LET wb == export_to_excel(main_deals)
       IN sheet' = wb.cells /\ widths' = wb.widths
    /\ pc' = "exported"
    /\ export_calls' = export_calls + 1
    /\ files' = files + 1
    /\ UNCHANGED <<mode, env_key, exit_code, ticks, fetchVars, failures, log>>

\* demo_reporter.export_to_excel(name, deals) on an arbitrary deal list
CallDemoExport ==
    /\ mode = "library"
    /\ pc = "call"
    /\ LET wb == demo_export_to_excel(main_deals)
       IN sheet' = wb.cells /\ widths' = wb.widths
    /\ pc' = "demo_exported"
    /\ export_calls' = export_calls + 1
    /\ files' = files + 1
    /\ UNCHANGED <<mode, env_key, exit_code, ticks, fetchVars, failures, log>>

NextExport == CallExport \/ CallDemoExport

SpecExport == InitExport /\ [][NextExport]_vars

\* ================================================================= claims
PipelineRequests == SelectSeq(requests, LAMBDA q : q.url = "pipelines")
SignalStatus == ExitStatus(KeyboardInterrupt)
FetchFailures == {"pipeline_request", "deal_request"}

RECURSIVE Served(_)
\* every deal the API returned, over the pages in order
Served(rs) == IF rs = <<>> THEN <<>> ELSE Head(rs).results \o Served(Tail(rs))

\* a page either names no `next` or names one with a usable cursor
WellFormedPage(r) == r.paging.next => Truthy(r.paging.after)
HasCursor(r) == r.paging.next /\ Truthy(r.paging.after)

\* C1 (as stated): a scheduler process with a token configured never ends
\* because a triggered run failed (pipeline-list, deal-fetch or file-write
\* failure); it ends only by an external signal.
C1_SchedulerOnlyEndsBySignal ==
    (mode = "scheduler" /\ Truthy(env_key) /\ pc = "exited") => exit_code = SignalStatus

\* C2 (as stated): when a deals request fails after k pages, get_pipeline_deals
\* logs the error, does not exit, and returns exactly the matching deals
\* accumulated from those k pages.
C2_PartialResultsReturned ==
    ("deal_request" \in failures /\ pc = "after_fetch") =>
        /\ "Error fetching deals" \in log
        /\ main_deals = deals

\* C2 (amended): when a deals request fails after k pages, get_pipeline_deals
\* logs the error, does not exit the process with status 1, and returns the
\* empty list, whatever was accumulated from the k pages.
C2_EmptyListOnFetchFailure ==
    "deal_request" \in failures =>
        /\ "Error fetching deals" \in log
        /\ main_deals = <<>>
        /\ ~(pc = "exited" /\ exit_code = 1)

\* C2 witness: a deals request failed after pages that had matching deals
C2_Witness ==
    /\ "deal_request" \in failures
    /\ pc = "after_fetch"
    /\ Len(responses) = 2
    /\ deals # <<>>

\* C3: against an API serving N >= 1 pages, each with a cursor except the last,
\* with no request failing, get_pipeline_deals issues exactly N GETs and returns
\* exactly the served deals, in page order and in-page order, whose `pipeline`
\* property equals pipeline_id; no other served deal is in the result.
C3_PaginationAndFiltering ==
    ( /\ pc \in {"after_fetch", "export"}
      /\ failures = {}
      /\ \A i \in DOMAIN responses : WellFormedPage(responses[i]) ) =>
        LET n == Len(responses)
        IN /\ n >= 1
           /\ Len(DealRequests) = n
           /\ ~responses[n].paging.next
           /\ \A i \in 1..(n - 1) : responses[i].paging.next
           /\ main_deals = SelectSeq(Served(responses),
                                     LAMBDA d : /\ "pipeline" \in DOMAIN d.properties
                                                /\ d.properties["pipeline"] = pipeline_id)

\* C3 witness: three well-formed pages were fetched and some served deals were
\* kept while others were filtered out
C3_Witness ==
    /\ pc = "after_fetch"
    /\ failures = {}
    /\ Len(responses) = 3
    /\ \A i \in DOMAIN responses : WellFormedPage(responses[i])
    /\ Len(main_deals) >= 2
    /\ Len(main_deals) < Len(Served(responses))

\* C4: with no API token (unset or empty) the constructor fails, the run ends
\* with exit status 1 and no HTTP request is issued in it; every HTTP request
\* ever issued carries a non-empty token.
C4_CredentialBeforeNetwork ==
    /\ \A i \in DOMAIN requests : Truthy(requests[i].auth)
    /\ ~Truthy(env_key) =>
           /\ requests = <<>>
           /\ pc \in {"polling", "main", "exited"}
           /\ "config" \in failures => (pc = "exited" /\ exit_code = 1)
           /\ (pc = "exited" /\ exit_code # SignalStatus) => "config" \in failures

\* C4 witness: a run without a token has ended
C4_Witness ==
    /\ ~Truthy(env_key)
    /\ "config" \in failures
    /\ pc = "exited"
    /\ mode = "scheduler"

\* C5: get_pipelines issues exactly one GET; when it fails the process exits
\* with status 1 with no second attempt, no deals request and no file write in
\* that run, whereas a failed deals request never exits the process.
C5_PipelineListingFatal ==
    /\ Len(PipelineRequests) <= 1
    /\ pc \in {"fetch", "after_fetch", "export", "returned"} => Len(PipelineRequests) = 1
    /\ "pipeline_request" \in failures =>
           /\ pc = "exited"
           /\ exit_code = 1
           /\ Len(PipelineRequests) = 1
           /\ DealRequests = <<>>
           /\ export_calls = 0
           /\ files = 0
    /\ "deal_request" \in failures =>
           \/ pc \in {"after_fetch", "returned", "polling"}
           \/ pc = "exited" /\ exit_code \in {0, SignalStatus}

\* C5 witness: the pipeline-list request failed
C5_Witness ==
    /\ "pipeline_request" \in failures
    /\ pc = "exited"
    /\ Len(requests) = 1

\* C7 (as stated): a one-shot run (every response readable) exits with 1 when
\* initialization fails or a fetch error occurs, and with 0 in every other outcome.
C7_ExitCodesAsStated ==
    (mode = "oneshot" /\ pc = "exited" /\ "malformed" \notin failures) =>
        exit_code = IF failures \cap ({"config"} \cup FetchFailures) # {} THEN 1 ELSE 0

\* C7 (amended): a one-shot run exits with 1 when the credential is missing,
\* the pipeline-list request fails, a response cannot be read (an exception
\* other than a request error) or the export raises (file write failure); it
\* exits with 0 in every other outcome, a failed deals request included.
C7_ExitCodes ==
    (mode = "oneshot" /\ pc = "exited") =>
        exit_code = IF failures \cap {"config", "pipeline_request", "malformed", "write"} # {}
                    THEN 1 ELSE 0

\* C7 witness: a one-shot run whose deals request failed has exited with 0
C7_Witness ==
    /\ mode = "oneshot"
    /\ pc = "exited"
    /\ failures = {"deal_request"}
    /\ exit_code = 0

\* C9 (as stated): the first deals request passes no cursor; a further request is
\* issued only after a response that carries paging.next.after, and passes exactly
\* that response's cursor.
C9_CursorLoopProtocol ==
    LET reqs == DealRequests
    IN /\ reqs # <<>> => reqs[1].after = PyNone
       /\ \A i \in 2..Len(reqs) :
              /\ HasCursor(responses[i - 1])
              /\ reqs[i].after = responses[i - 1].paging.after

\* C10: a run of main calls export_to_excel at most once and writes at most one
\* file; it writes one only if the pipeline list was non-empty and the fetch for
\* pipelines[0] returned a deal, and none when the pipeline list or the deal
\* list is empty or a fetch step failed.
C10_PerRunFileEffect ==
    /\ export_calls <= 1
    /\ files <= export_calls
    /\ files = 1 =>
           /\ pipelines # <<>>
           /\ pipeline_id = pipelines[1].id
           /\ DealRequests # <<>>
           /\ main_deals # <<>>
    /\ (pipelines = <<>> \/ main_deals = <<>> \/ failures \cap FetchFailures # {}) =>
           (files = 0 /\ export_calls = 0)

\* C10 witness: the second run of a scheduler wrote its one file
C10_Witness ==
    /\ mode = "scheduler"
    /\ ticks = 2
    /\ files = 1
    /\ pc = "polling"

\* the value export_to_excel is to put in column c for a deal
Shown(deal, c) ==
    IF Fields[c] \in DOMAIN deal.properties THEN deal.properties[Fields[c]] ELSE Str("N/A")

\* C6: for every deal list of length n, either export_to_excel produces one
\* header row and n data rows, row i + 1 holding the five display fields of deal
\* i in the order dealname, amount, dealstage, closedate, createdate.
C6_ExportPreservesCountAndOrder ==
    pc \in {"exported", "demo_exported"} =>
        LET n == Len(main_deals)
        IN /\ DOMAIN sheet = (1..(n + 1)) \X Columns
           /\ \A c \in Columns : sheet[<<1, c>>] = Str(Headers[c])
           /\ \A i \in 1..n : \A c \in Columns :
                  sheet[<<i + 1, c>>] = Shown(main_deals[i], c)

\* C6 witness: a list with a duplicate and a deal lacking fields was exported
C6_Witness ==
    /\ pc = "exported"
    /\ Len(main_deals) = 3
    /\ main_deals[1] = main_deals[3]
    /\ main_deals[2] = ExportDealSparse
    /\ main_deals[1] = ExportDealFull

\* C8: after either export_to_excel every column's width is min(50, maxLen + 2),
\* maxLen the longest rendered value over the header and the data cells of the
\* column; so it lies between header length + 2 and 50.
C8_ColumnWidths ==
    pc \in {"exported", "demo_exported"} =>
        /\ DOMAIN widths = Columns
        /\ \A c \in Columns :
               LET maxLen == SetMax({Len(Headers[c])} \cup
                                    {Len(PyStr(Shown(main_deals[i], c))) :
                                         i \in DOMAIN main_deals})
               IN /\ widths[c] = IF maxLen + 2 < 50 THEN maxLen + 2 ELSE 50
                  /\ Len(Headers[c]) + 2 <= widths[c]
                  /\ widths[c] <= 50

\* C8 witness: a column over the cap, one exactly at it, one just under it and
\* one sized by its header
C8_Witness ==
    /\ pc = "exported"
    /\ main_deals = <<ExportDealLong>>
    /\ widths = <<50, 8, 50, 50, 49>>

====
